---- MODULE Spec2Model ----
(***************************************************************************)
(* Model of the Monzo JSON importer (monzo_importer.py): the three probes  *)
(* identify, date and extract of class Importer over one candidate file,   *)
(* and the pure functions they call.                                        *)
(*                                                                         *)
(* Representation of Python values                                         *)
(*   - a dict is a TLA+ function from key strings; a key is absent when it  *)
(*     is not in the DOMAIN (JSON null / {} is the function with the empty  *)
(*     domain);                                                             *)
(*   - a value that may be None is a sequence of length <= 1: None is <<>>  *)
(*     and x is <<x>>;                                                      *)
(*   - a return value of varying Python type is tagged: [type, v];          *)
(*   - a call returns [raised, value]: raised is "None" when the call       *)
(*     returned, else the name of the exception that left it;               *)
(*   - a Decimal is [scaled, places]: the number scaled * 10^-places;       *)
(*   - an ISO timestamp string is the tuple <<y, m, d, hh, mm, ss>>.        *)
(***************************************************************************)
EXTENDS Integers, Sequences, FiniteSets, TLC

VARIABLES filepath, account_id, importer_account, results

vars == <<filepath, account_id, importer_account, results>>

\* ---------------------------------------------------------------- bounds
MaxTxns == 2
MaxLacking == 1

\* ------------------------------------------------------- Python values
None == <<>>
Some(x) == <<x>>

PyNone == [type |-> "NoneType", v |-> FALSE]
PyBool(b) == [type |-> "bool", v |-> b]
PyStr(s) == [type |-> "str", v |-> s]
PyList(s) == [type |-> "list", v |-> s]
PyDate(d) == [type |-> "date", v |-> d]

Return(x) == [raised |-> "None", value |-> x]
Raise(e) == [raised |-> e, value |-> PyNone]
Returned(r) == r.raised = "None"
Entries(r) == r.value.v

EmptyDict == [k \in {} |-> TRUE]
Has(d, k) == k \in DOMAIN d
Truthy(d) == DOMAIN d # {}

\* the first exception of a sequence of evaluations, "None" when none raises
RECURSIVE FirstRaised(_)
FirstRaised(es) ==
    IF es = <<>> THEN "None"
    ELSE IF Head(es) # "None" THEN Head(es) ELSE FirstRaised(Tail(es))

\* d[k] raises KeyError when k is not a key of d
Subscript(d, k) == IF Has(d, k) THEN "None" ELSE "KeyError"

\* ------------------------------------------------------------- Decimal
Dec(n, p) == [scaled |-> n, places |-> p]
Abs(n) == IF n < 0 THEN -n ELSE n
Neg(a) == [number |-> Dec(-a.number.scaled, a.number.places), currency |-> a.currency]
Amount(number, currency) == [number |-> number, currency |-> currency]

\* the integer nearest to n / d for n >= 0, d > 0, ties to the even one
\* (Python's round() on a Decimal quantizes with ROUND_HALF_EVEN)
RoundHalfEven(n, d) ==
    LET q == n \div d
        r == n % d
    IN  IF 2 * r < d THEN q
        ELSE IF 2 * r > d THEN q + 1
        ELSE IF q % 2 = 0 THEN q ELSE q + 1

RECURSIVE Pow10(_)
Pow10(p) == IF p = 0 THEN 1 ELSE 10 * Pow10(p - 1)

\* -------------------------------------------------- str.lower, flags
lower(s) ==
    CASE s = "PIN Change" -> "pin change"
      [] s = "Pin change" -> "pin change"
      [] s = "Lunch" -> "lunch"
      [] OTHER -> s

FLAG_OKAY == "*"
FLAG_WARNING == "!"

\* --------------------------------------------- parse_transaction_time
parse_transaction_time(date_str) == SubSeq(date_str, 1, 3)

\* ------------------------------------------------ mimetypes.guess_type
guess_type(f) ==
    CASE f.ext = ".json" -> Some("application/json")
      [] f.ext = ".csv" -> Some("text/csv")
      [] OTHER -> None

\* get_account_id looking at the last record of the file instead of the first
get_account_id_last(f) ==
    IF guess_type(f) # Some("application/json") THEN PyBool(FALSE)
    ELSE IF ~Has(f.data, "transactions") THEN PyBool(FALSE)
    ELSE LET transactions == f.data.transactions
             n == Len(transactions)
         IN  IF n = 0 THEN PyBool(FALSE)
             ELSE IF Has(transactions[n], "account_id")
                  THEN PyStr(transactions[n].account_id)
                  ELSE PyBool(FALSE)

\* ------------------------------------------------------ get_account_id
get_account_id(f) ==
    IF guess_type(f) # Some("application/json") THEN PyBool(FALSE)
    ELSE IF ~Has(f.data, "transactions") THEN PyBool(FALSE)
    ELSE LET transactions == f.data.transactions
         IN  IF Len(transactions) = 0 THEN PyBool(FALSE)
             ELSE IF Has(transactions[1], "account_id")
                  THEN PyStr(transactions[1].account_id)
                  ELSE PyBool(FALSE)

\* ---------------------------------------------------- get_transactions
get_transactions(f) ==
    IF guess_type(f) # Some("application/json") THEN PyBool(FALSE)
    ELSE IF Has(f.data, "transactions") THEN PyList(f.data.transactions)
    ELSE PyBool(FALSE)

\* ------------------------------------------------------ get_unit_price
\* the `and` short-circuits: local_amount is read only when the currencies differ
unit_price_condition(transaction) ==
    /\ transaction.local_currency # transaction.currency
    /\ transaction.local_amount # 0

get_unit_price_raises(transaction) ==
    FirstRaised(<<
        Subscript(transaction, "local_currency"),
        Subscript(transaction, "currency"),
        IF Has(transaction, "local_currency") /\ Has(transaction, "currency")
           /\ transaction.local_currency # transaction.currency
        THEN Subscript(transaction, "local_amount") ELSE "None",
        IF Has(transaction, "local_currency") /\ Has(transaction, "currency")
           /\ Has(transaction, "local_amount")
           /\ unit_price_condition(transaction)
        THEN FirstRaised(<<
                Subscript(transaction, "amount"),
                IF Has(transaction, "amount") /\ transaction.amount = 0
                THEN "DivisionByZero" ELSE "None" >>)
        ELSE "None" >>)

\* get_unit_price without the abs(): the sign of the quotient is kept
get_unit_price_signed(transaction) ==
    IF unit_price_condition(transaction)
    THEN LET q == RoundHalfEven(Abs(transaction.local_amount) * Pow10(5),
                                Abs(transaction.amount))
             positive == (transaction.local_amount < 0) = (transaction.amount < 0)
         IN  Some(Amount(Dec(IF positive THEN q ELSE -q, 5), transaction.local_currency))
    ELSE None

get_unit_price(transaction) ==
    IF unit_price_condition(transaction)
    THEN LET total_local_amount == transaction.amount
             total_foreign_amount == transaction.local_amount
             unit_price == Dec(RoundHalfEven(Abs(total_foreign_amount) * Pow10(5),
                                             Abs(total_local_amount)), 5)
         IN  Some(Amount(unit_price, transaction.local_currency))
    ELSE None

\* ----------------------------------------------------------- get_payee
get_payee_raises(transaction) ==
    FirstRaised(<<
        Subscript(transaction, "merchant"),
        IF Has(transaction, "merchant") /\ Truthy(transaction.merchant)
        THEN Subscript(transaction.merchant, "name")
        ELSE Subscript(transaction, "counterparty") >>)

get_payee(transaction) ==
    IF Truthy(transaction.merchant) THEN Some(transaction.merchant.name)
    ELSE IF Has(transaction.counterparty, "prefered_name")
         THEN Some(transaction.counterparty.prefered_name)
    ELSE IF Has(transaction.counterparty, "name")
         THEN Some(transaction.counterparty.name)
    ELSE None

\* ------------------------------------------------------- get_narration
get_narration_raises(transaction) ==
    FirstRaised(<<
        Subscript(transaction, "notes"),
        IF Has(transaction, "notes") /\ transaction.notes = ""
        THEN FirstRaised(<<
                Subscript(transaction, "scheme"),
                IF Has(transaction, "scheme") /\ transaction.scheme # "uk_retail_pot"
                THEN Subscript(transaction, "description") ELSE "None" >>)
        ELSE "None" >>)

get_narration(transaction) ==
    IF transaction.notes # "" THEN transaction.notes
    ELSE IF transaction.scheme = "uk_retail_pot" THEN "Internal pot transfer"
    ELSE transaction.description

\* ----------------------------------------------- Importer.extract, one record
\* the metadata dict of one record and data.new_metadata(filepath, 0, metadata)
counterparty_metadata(transaction) ==
    IF Has(transaction.counterparty, "account_number")
    THEN [counterparty_account_number |-> transaction.counterparty.account_number,
          counterparty_sort_code |-> transaction.counterparty.sort_code]
    ELSE IF Has(transaction.counterparty, "number")
    THEN [counterparty_phone_number |-> transaction.counterparty.number,
          counterparty_user_id |-> transaction.counterparty.user_id]
    ELSE EmptyDict

new_metadata(f, transaction) ==
    [filename |-> <<f.basename, f.ext>>,
     lineno |-> 0,
     bank_id |-> transaction.id,
     bank_dedupe_id |-> transaction.dedupe_id,
     bank_description |-> transaction.description,
     bank_created_date |-> transaction.created,
     bank_settlement_date |-> transaction.settled,
     bank_updated_date |-> transaction.updated] @@ counterparty_metadata(transaction)

metadata_raises(transaction) ==
    FirstRaised(<<
        Subscript(transaction, "id"),
        Subscript(transaction, "dedupe_id"),
        Subscript(transaction, "description"),
        Subscript(transaction, "created"),
        Subscript(transaction, "settled"),
        Subscript(transaction, "updated"),
        Subscript(transaction, "counterparty"),
        IF ~Has(transaction, "counterparty") THEN "None"
        ELSE IF Has(transaction.counterparty, "account_number")
             THEN Subscript(transaction.counterparty, "sort_code")
        ELSE IF Has(transaction.counterparty, "number")
             THEN Subscript(transaction.counterparty, "user_id")
        ELSE "None" >>)

\* the branch the loop body takes for a record whose notes it could read
is_pin_change(transaction) == lower(transaction.notes) = "pin change"
is_declined(transaction) == Has(transaction, "decline_reason")
is_pot_transfer(transaction) == transaction.scheme = "uk_retail_pot"

\* the statements after the two Note branches (lines 110-138)
transaction_raises(transaction) ==
    FirstRaised(<<
        get_unit_price_raises(transaction),
        get_payee_raises(transaction),
        get_narration_raises(transaction),
        Subscript(transaction, "amount"),
        Subscript(transaction, "currency"),
        Subscript(transaction, "scheme"),
        IF Has(transaction, "scheme") /\ is_pot_transfer(transaction)
        THEN FirstRaised(<<
                Subscript(transaction, "metadata"),
                IF Has(transaction, "metadata")
                THEN Subscript(transaction.metadata, "pot_id") ELSE "None" >>)
        ELSE "None" >>)

\* the exception one pass of the loop body raises, "None" when it appends an entry
body_raises(transaction) ==
    FirstRaised(<<
        metadata_raises(transaction),
        Subscript(transaction, "notes"),
        IF metadata_raises(transaction) # "None" \/ ~Has(transaction, "notes") THEN "None"
        ELSE IF is_pin_change(transaction) THEN "None"
        ELSE IF is_declined(transaction) THEN get_payee_raises(transaction)
        ELSE transaction_raises(transaction) >>)

Note(meta, date, account, comment) ==
    [type |-> "Note", meta |-> meta, date |-> date, account |-> account,
     comment |-> comment]

Posting(account, units, cost, price, flag, meta) ==
    [account |-> account, units |-> units, cost |-> cost, price |-> price,
     flag |-> flag, meta |-> meta]

Transaction(meta, date, flag, payee, narration, tags, links, postings) ==
    [type |-> "Transaction", meta |-> meta, date |-> date, flag |-> flag,
     payee |-> payee, narration |-> narration, tags |-> tags, links |-> links,
     postings |-> postings]

\* the second posting of the pot-transfer branch; flag was set to None just before
pot_postings(account, transaction, unit) ==
    IF is_pot_transfer(transaction)
    THEN << Posting(account, Neg(unit), None, None, None, None) >>
    ELSE << >>

\* the flag handed to data.Transaction; the local `flag` (FLAG_WARNING, then None in
\* the pot branch) goes to the second posting only
transaction_flag(transaction) == FLAG_OKAY

\* the price handed to the first posting: computed before the scheme is looked at
first_posting_price(transaction) == get_unit_price(transaction)

\* the entry one pass of the loop body appends, for a record it does not raise on
body_entry(f, account, transaction) ==
    LET meta == new_metadata(f, transaction)
    IN  IF is_pin_change(transaction)
        THEN Note(meta, parse_transaction_time(transaction.created), account, "PIN Change")
        ELSE IF is_declined(transaction)
        THEN Note(meta, parse_transaction_time(transaction.created), account,
                  << get_payee(transaction), " transaction declined with reason ",
                     transaction.decline_reason >>)
        ELSE LET date == parse_transaction_time(transaction.created)
                 price == first_posting_price(transaction)
                 payee == get_payee(transaction)
                 narration == get_narration(transaction)
                 unit == Amount(Dec(transaction.amount, 2), transaction.currency)
                 link == IF is_pot_transfer(transaction)
                         THEN {transaction.metadata.pot_id} ELSE {}
                 postings == << Posting(account, unit, None, price, None, None) >>
                             \o pot_postings(account, transaction, unit)
             IN  Transaction(meta, date, transaction_flag(transaction), payee, narration,
                             {}, link, postings)

\* the loop with per-record recovery: a record that raises is skipped
RECURSIVE extract_loop_skipping(_, _, _, _)
extract_loop_skipping(f, account, transactions, entries) ==
    IF transactions = << >> THEN Return(PyList(entries))
    ELSE LET transaction == Head(transactions)
         IN  IF body_raises(transaction) # "None"
             THEN extract_loop_skipping(f, account, Tail(transactions), entries)
             ELSE extract_loop_skipping(f, account, Tail(transactions),
                               Append(entries, body_entry(f, account, transaction)))

\* ------------------------------------------------------ the loop of extract
\* entries appended so far, or the exception that ended the loop
RECURSIVE extract_loop(_, _, _, _)
extract_loop(f, account, transactions, entries) ==
    IF transactions = << >> THEN Return(PyList(entries))
    ELSE LET transaction == Head(transactions)
         IN  IF body_raises(transaction) # "None"
             THEN Raise(body_raises(transaction))
             ELSE extract_loop(f, account, Tail(transactions),
                               Append(entries, body_entry(f, account, transaction)))

\* `for transaction in False` raises TypeError
extract_result(f, account) ==
    LET transactions == get_transactions(f)
    IN  IF transactions.type # "list" THEN Raise("TypeError")
        ELSE extract_loop(f, account, transactions.v, << >>)

\* Importer.identify
identify_result(f, id) ==
    LET identifier == get_account_id(f)
    IN  Return(PyBool(identifier.type = "str" /\ identifier.v = id))

\* Importer.date: False[0] raises TypeError, [][0] IndexError
date_result(f) ==
    LET transactions == get_transactions(f)
    IN  IF transactions.type # "list" THEN Raise("TypeError")
        ELSE IF Len(transactions.v) = 0 THEN Raise("IndexError")
        ELSE IF ~Has(transactions.v[1], "created") THEN Raise("KeyError")
        ELSE Return(PyDate(parse_transaction_time(transactions.v[1].created)))

\* ------------------------------------------------------------ input files
\* One record of the "transactions" array as the Monzo API returns it, for the
\* record at position i of the file (ids are unique in a file).
TxIds == << "tx_0001", "tx_0002", "tx_0003", "tx_0004" >>
Created(i) == << 2024, 1, 4 + i, 9, 30, 0 >>

BaseTx(i) ==
    [id |-> TxIds[i],
     dedupe_id |-> << "dedupe", TxIds[i] >>,
     account_id |-> "acc_1",
     description |-> "TESCO STORES 3297",
     created |-> Created(i),
     settled |-> Created(i + 1),
     updated |-> Created(i),
     amount |-> -1250,
     currency |-> "GBP",
     local_amount |-> -1250,
     local_currency |-> "GBP",
     notes |-> "",
     scheme |-> "mastercard",
     merchant |-> [name |-> "Tesco"],
     counterparty |-> EmptyDict,
     metadata |-> EmptyDict]

Drop(d, ks) == [k \in DOMAIN d \ ks |-> d[k]]

\* a shape says which fields of the base record are replaced or added, and which
\* keys the record lacks
Shape(set, del) == [set |-> set, del |-> del]
Tx(i, shape) == Drop(shape.set @@ BaseTx(i), shape.del)

Fx(a, la, lc) == [amount |-> a, local_amount |-> la, local_currency |-> lc]
Declined(d) == IF d THEN [decline_reason |-> "INSUFFICIENT_FUNDS"] ELSE EmptyDict
Scheme(s) ==
    [scheme |-> s,
     metadata |-> IF s = "uk_retail_pot" THEN [pot_id |-> "pot_0001"] ELSE EmptyDict]

NotesValues == { "", "PIN Change", "Lunch" }
Schemes == { "uk_retail_pot", "mastercard" }

\* amount, local_amount, local_currency (the account's currency is GBP)
FxClass == { Fx(-1250, -1250, "GBP"), Fx(0, -850, "EUR") }
FxPrice ==
    { Fx(-1250, -1250, "GBP"),   \* domestic
      Fx(1000, -850, "EUR"),     \* foreign: 0.85
      Fx(-300, -100, "EUR"),     \* foreign: 0.33333
      Fx(-300, -200, "EUR"),     \* foreign: 0.66667
      Fx(-200000, -1, "EUR"),    \* foreign: 0.000005, a tie
      Fx(0, 0, "EUR"),           \* active card check
      Fx(-500, 0, "EUR"),        \* local_amount 0, amount not
      Fx(0, -850, "EUR"),        \* amount 0, local_amount not
      Fx(0, -850, "GBP") }       \* amount 0, same currency

ClassShapes ==
    { Shape([notes |-> n] @@ Declined(d) @@ Scheme(s) @@ fx, {}) :
        n \in NotesValues, d \in BOOLEAN, s \in Schemes, fx \in FxClass }

PriceShapes ==
    { Shape(Scheme(s) @@ fx, {}) : s \in Schemes, fx \in FxPrice }
    \cup { Shape([notes |-> "Pin change"] @@ Fx(1000, -850, "EUR"), {}),
           Shape(Declined(TRUE) @@ Fx(0, -850, "EUR"), {}) }

\* the keys a record of the API always carries, each left out in turn
RecordKeys ==
    { "id", "dedupe_id", "description", "created", "settled", "updated",
      "counterparty", "notes", "amount", "currency", "local_amount",
      "local_currency", "merchant", "scheme" }

FieldContexts ==
    { EmptyDict,                                        \* general, domestic
      Fx(1000, -850, "EUR"),                            \* general, foreign
      Scheme("uk_retail_pot"),                          \* pot transfer
      [notes |-> "PIN Change"],                         \* PIN change
      Declined(TRUE) }                                  \* declined

FieldShapes ==
    { Shape(c, {}) : c \in FieldContexts }
    \cup { Shape(c, {k}) : c \in FieldContexts, k \in RecordKeys }

PayeeShapes ==
    { Shape([merchant |-> m, counterparty |-> c] @@ Declined(d), {}) :
        m \in { EmptyDict, [name |-> "Tesco"] },
        c \in { EmptyDict,
                [name |-> "Bob", account_number |-> "12345678", sort_code |-> "040004"],
                [name |-> "Bob", prefered_name |-> "Bobby", number |-> "+447700900000",
                 user_id |-> "user_0001"] },
        d \in BOOLEAN }

AccountIds == { "acc_1", "acc_2" }
ProbeShapes ==
    { Shape([account_id |-> a], {}) : a \in AccountIds }
    \cup { Shape(EmptyDict, {"account_id"}) }

\* the sequences of at most n records, each of one of the shapes, at most `lacking`
\* of them lacking a key
Lacks(txs) == Cardinality({ i \in DOMAIN txs : DOMAIN txs[i] # DOMAIN BaseTx(i) \cup DOMAIN txs[i] })

RECURSIVE TxSeqs(_, _, _)
TxSeqs(shapes, n, lacking) ==
    IF n = 0 THEN { << >> }
    ELSE LET shorter == TxSeqs(shapes, n - 1, lacking)
         IN  shorter \cup
             { txs \in { Append(t, Tx(n, shape)) : t \in { t \in shorter : Len(t) = n - 1 },
                                                   shape \in shapes } :
                 Lacks(txs) <= lacking }

File(basename, ext, data) == [basename |-> basename, ext |-> ext, data |-> data]

\* the files json.dump of the fetcher writes: a JSON object with "transactions"
JsonFiles(shapes) ==
    { File("2024-01-05-monzo-acc_1", ".json", [transactions |-> txs]) :
        txs \in TxSeqs(shapes, MaxTxns, MaxLacking) }

\* the candidate files the import framework hands to the probes: any file of the
\* directory, JSON or not, with or without a "transactions" key
CandidateFiles(shapes) ==
    { File("candidate", ext, data) :
        ext \in { ".json", ".csv" },
        data \in { [transactions |-> txs] : txs \in TxSeqs(shapes, MaxTxns, MaxLacking) }
                 \cup { [accounts |-> << >>] } }

\* ---------------------------------------------------------- state machine
Probes == { "identify", "date", "extract" }

\* Importer.__init__(account_id, account)
InitWith(files, ids) ==
    /\ filepath \in files
    /\ account_id \in ids
    /\ importer_account = "Assets:Monzo"
    /\ results = [p \in Probes |-> {}]

\* a probe returns to (or raises into) its caller; results[probe] is what the
\* caller has got from the probe so far
Call(probe, result) ==
    results' = [results EXCEPT ![probe] = @ \cup {result}]

identify ==
    /\ Call("identify", identify_result(filepath, account_id))
    /\ UNCHANGED << filepath, account_id, importer_account >>

date ==
    /\ Call("date", date_result(filepath))
    /\ UNCHANGED << filepath, account_id, importer_account >>

\* extract with `entries` kept on the importer between calls: a second call returns
\* the entries of the first followed by its own
extract_accumulating ==
    /\ LET r == extract_result(filepath, importer_account)
       IN  Call("extract",
                IF results["extract"] # {} /\ Returned(r)
                THEN Return(PyList(Entries(r) \o Entries(r)))
                ELSE r)
    /\ UNCHANGED << filepath, account_id, importer_account >>

extract ==
    /\ Call("extract", extract_result(filepath, importer_account))
    /\ UNCHANGED << filepath, account_id, importer_account >>

Next == identify \/ date \/ extract

Init == InitWith(JsonFiles(ClassShapes \cup PayeeShapes), {"acc_1"})
Spec == Init /\ [][Next]_vars

InitPrice == InitWith(JsonFiles(PriceShapes), {"acc_1"})
SpecPrice == InitPrice /\ [][Next]_vars

InitFields == InitWith(JsonFiles(FieldShapes), {"acc_1"})
SpecFields == InitFields /\ [][Next]_vars

InitProbe == InitWith(CandidateFiles(ProbeShapes), AccountIds)
SpecProbe == InitProbe /\ [][Next]_vars

Exceptions == { "KeyError", "TypeError", "IndexError", "DivisionByZero" }

TypeOK ==
    /\ \A p \in Probes : \A r \in results[p] : r.raised \in Exceptions \cup {"None"}
    /\ importer_account = "Assets:Monzo"

\* ------------------------------------------------------ vocabulary of the claims
Readable == guess_type(filepath) = Some("application/json") /\ Has(filepath.data, "transactions")
Txs == IF Has(filepath.data, "transactions") THEN filepath.data.transactions ELSE << >>

\* the four shapes of a record whose notes and scheme can be read, in the spec's words
PinChange(tx) == lower(tx.notes) = "pin change"
DeclinedTx(tx) == ~PinChange(tx) /\ "decline_reason" \in DOMAIN tx
PotTransfer(tx) == ~PinChange(tx) /\ ~DeclinedTx(tx) /\ tx.scheme = "uk_retail_pot"
General(tx) == ~PinChange(tx) /\ ~DeclinedTx(tx) /\ tx.scheme # "uk_retail_pot"

\* the Decimal dec is the number num / den
DecIs(dec, num, den) == dec.scaled * den = num * Pow10(dec.places)

\* the Decimal dec is |num / den| rounded to 5 places, a tie going to the even digit
IsRounded5(dec, num, den) ==
    LET err == dec.scaled * Abs(den) - Abs(num) * Pow10(5)
    IN  /\ dec.places = 5
        /\ dec.scaled >= 0
        /\ 2 * Abs(err) <= Abs(den)
        /\ 2 * Abs(err) = Abs(den) => dec.scaled % 2 = 0

PriceDue(tx) == tx.local_currency # tx.currency /\ tx.local_amount # 0

\* ---------------------------------------------------------------------- C1
\* C1: for a file of n well-formed records extract returns exactly n entries, and
\* the entry at output index i is the one made from the record at input index i.
\* Every record of Spec carries every key, so every file of Spec is in the claim's
\* scope. Violated: a well-formed record with amount 0, local_amount nonzero and a
\* foreign local_currency makes extract raise (the division of C10), so no list is
\* returned.
C1_OneToOneInOrder ==
    \A r \in results["extract"] :
        /\ Returned(r)
        /\ Len(Entries(r)) = Len(Txs)
        /\ \A i \in DOMAIN Txs : Entries(r)[i].meta.bank_id = Txs[i].id

\* what is left of C1 when the division does not happen: holds
C1_OneToOneInOrderWhenReturned ==
    \A r \in results["extract"] :
        /\ r.raised \in { "None", "DivisionByZero" }
        /\ Returned(r) =>
            /\ Len(Entries(r)) = Len(Txs)
            /\ \A i \in DOMAIN Txs :
                /\ Entries(r)[i].meta.bank_id = Txs[i].id
                /\ Entries(r)[i].date = SubSeq(Txs[i].created, 1, 3)

\* ---------------------------------------------------------------------- C2
\* the entry has the shape the spec gives the record's class
ShapeOf(tx, e) ==
    /\ PinChange(tx) =>
        e.type = "Note" /\ e.comment = "PIN Change" /\ ~Has(e, "postings")
    /\ DeclinedTx(tx) =>
        /\ e.type = "Note" /\ ~Has(e, "postings")
        /\ e.comment # "PIN Change"
        /\ e.comment[3] = tx.decline_reason
    /\ PotTransfer(tx) => e.type = "Transaction" /\ Len(e.postings) = 2
    /\ General(tx) => e.type = "Transaction" /\ Len(e.postings) = 1

\* C2: every record yields the entry of its class, the classes taken in the order
\* PIN change, declined, pot transfer, general; Notes carry no postings.
\* Violated only through C10: a pot-transfer or general record with amount 0,
\* local_amount nonzero and a foreign local_currency yields no entry, extract raises.
C2_Precedence ==
    \A r \in results["extract"] :
        /\ Returned(r)
        /\ \A i \in DOMAIN Txs : ShapeOf(Txs[i], Entries(r)[i])

\* what is left of C2 when the division does not happen: holds
C2_PrecedenceWhenReturned ==
    \A r \in results["extract"] :
        Returned(r) => \A i \in DOMAIN Txs : ShapeOf(Txs[i], Entries(r)[i])

\* ---------------------------------------------------------------------- C3
HasWarningFlag(e) ==
    \/ e.flag = FLAG_WARNING
    \/ \E k \in DOMAIN e.postings : e.postings[k].flag = Some(FLAG_WARNING)

\* C3: the entry extract outputs for a general transaction is a Transaction with
\* exactly one posting, on the importer account, of amount/100 in the record's
\* currency, and it carries the warning flag.
\* Violated: the entry's flag is FLAG_OKAY and its posting's flag is None; the
\* FLAG_WARNING the code assigns to `flag` reaches no entry.
C3_GeneralTransaction ==
    \A r \in results["extract"] :
        Returned(r) =>
            \A i \in DOMAIN Txs :
                General(Txs[i]) =>
                    LET e == Entries(r)[i]
                    IN  /\ e.type = "Transaction"
                        /\ Len(e.postings) = 1
                        /\ e.postings[1].account = importer_account
                        /\ DecIs(e.postings[1].units.number, Txs[i].amount, 100)
                        /\ e.postings[1].units.currency = Txs[i].currency
                        /\ HasWarningFlag(e)

\* ---------------------------------------------------------------------- C4
PotEntry(tx, e) ==
    /\ e.type = "Transaction"
    /\ Len(e.postings) = 2
    /\ \A k \in 1..2 : e.postings[k].account = importer_account
    /\ DecIs(e.postings[1].units.number, tx.amount, 100)
    /\ DecIs(e.postings[2].units.number, -tx.amount, 100)
    /\ e.postings[1].units.currency = tx.currency
    /\ e.postings[2].units.currency = tx.currency
    /\ e.postings[1].units.number.places = e.postings[2].units.number.places
    /\ e.postings[1].units.number.scaled + e.postings[2].units.number.scaled = 0
    /\ tx.metadata.pot_id \in e.links

\* C4: every pot transfer (not a PIN change, not declined) yields a Transaction of
\* two postings on the importer account, amount/100 and its negation, linked to the
\* pot_id of the record's metadata.
\* Violated only through C10: a pot transfer with amount 0, local_amount nonzero and
\* a foreign local_currency yields no entry, extract raises.
C4_PotTransfer ==
    \A r \in results["extract"] :
        \A i \in DOMAIN Txs :
            PotTransfer(Txs[i]) => Returned(r) /\ PotEntry(Txs[i], Entries(r)[i])

\* what is left of C4 when the division does not happen: holds
C4_PotTransferWhenReturned ==
    \A r \in results["extract"] :
        Returned(r) =>
            \A i \in DOMAIN Txs : PotTransfer(Txs[i]) => PotEntry(Txs[i], Entries(r)[i])

\* ---------------------------------------------------------------------- C5
PriceIs(price, tx) ==
    /\ price # None
    /\ price[1].currency = tx.local_currency
    /\ IsRounded5(price[1].number, tx.local_amount, tx.amount)

\* C5 as the spec states it: a posting carries a price only in the general branch,
\* there exactly when local_currency differs from currency and local_amount is
\* nonzero, and it is then round(|local_amount / amount|, 5) in the local currency;
\* no posting of a pot-transfer entry carries a price.
\* Violated: get_unit_price is called before the scheme is looked at and its result
\* goes into the first posting of the pot-transfer entry too.
C5_PriceOnlyInGeneralBranch ==
    \A r \in results["extract"] :
        Returned(r) =>
            \A i \in DOMAIN Txs :
                LET tx == Txs[i]
                    e == Entries(r)[i]
                IN  /\ General(tx) /\ PriceDue(tx) => PriceIs(e.postings[1].price, tx)
                    /\ General(tx) /\ ~PriceDue(tx) => e.postings[1].price = None
                    /\ PotTransfer(tx) => \A k \in DOMAIN e.postings : e.postings[k].price = None

\* C5 amended: the first posting of every Transaction entry, of a pot transfer as well
\* as of a general transaction, carries a price exactly when local_currency differs
\* from currency and local_amount is nonzero, and the price is then
\* |local_amount / amount| rounded half-even to 5 places, in the local currency; the
\* second posting of a pot-transfer entry never carries one and Notes have no
\* postings. No entry is output when a price is due on an amount of 0: extract raises
\* then, and only then (the records here carry every key).
C5_PriceOnFirstPosting ==
    \A r \in results["extract"] :
        /\ Returned(r) =>
            \A i \in DOMAIN Txs :
                LET tx == Txs[i]
                    e == Entries(r)[i]
                IN  /\ PinChange(tx) \/ DeclinedTx(tx) => ~Has(e, "postings")
                    /\ PotTransfer(tx) \/ General(tx) =>
                        /\ PriceDue(tx) => PriceIs(e.postings[1].price, tx)
                        /\ ~PriceDue(tx) => e.postings[1].price = None
                        /\ \A k \in DOMAIN e.postings : k > 1 => e.postings[k].price = None
        /\ ~Returned(r) <=>
            \E i \in DOMAIN Txs :
                (PotTransfer(Txs[i]) \/ General(Txs[i])) /\ PriceDue(Txs[i]) /\ Txs[i].amount = 0

\* extract has output a pot-transfer entry whose first posting carries a price
C5_Witness ==
    \E r \in results["extract"] :
        /\ Returned(r)
        /\ \E i \in DOMAIN Txs :
            /\ PotTransfer(Txs[i]) /\ PriceDue(Txs[i])
            /\ Entries(r)[i].postings[1].price # None
            /\ Entries(r)[i].postings[2].price = None

\* --------------------------------------------------------------------- C10
\* C10: extract never fails with a division by zero, whatever amount, local_amount,
\* currency and local_currency a record carries.
\* Violated: the guard of get_unit_price tests local_amount and the divisor is amount;
\* amount 0 with local_amount nonzero and a foreign local_currency divides by zero.
C10_NoDivisionByZero ==
    \A r \in results["extract"] : r.raised # "DivisionByZero"

\* ---------------------------------------------------------------------- C6
\* C6: for a file that is not application/json, or whose document has no
\* "transactions" key, identify and extract both return a negative sentinel and do
\* not raise.
\* Violated: get_transactions returns False and extract iterates over it, TypeError.
C6_SentinelNotRaise ==
    ~Readable =>
        /\ \A r \in results["identify"] : Returned(r) /\ r.value = PyBool(FALSE)
        /\ \A r \in results["extract"] : Returned(r)

\* the half of C6 that is about identify: holds
C6_IdentifySentinel ==
    ~Readable => \A r \in results["identify"] : Returned(r) /\ r.value = PyBool(FALSE)

\* ---------------------------------------------------------------------- C7
\* the first record of the transactions array identify reads carries the configured id
FirstTxMatches ==
    /\ Readable
    /\ Len(Txs) > 0
    /\ "account_id" \in DOMAIN Txs[1]
    /\ Txs[1].account_id = account_id

\* C7: identify never raises; it returns true exactly when the first transaction of
\* the file it reads (a JSON file with a transactions array, C6) has an account_id
\* equal to the configured one, and false when the array is empty, when the first
\* record has no account_id or another one, whatever the later records carry.
C7_IdentifyFirstTransaction ==
    \A r \in results["identify"] :
        /\ Returned(r)
        /\ r.value.type = "bool"
        /\ r.value.v <=> FirstTxMatches

\* identify has returned true on a file whose first record is of the configured
\* account and whose second record is of another one
C7_Witness ==
    /\ results["identify"] # {}
    /\ Len(Txs) = 2
    /\ Readable
    /\ "account_id" \in DOMAIN Txs[1] /\ "account_id" \in DOMAIN Txs[2]
    /\ Txs[1].account_id = account_id
    /\ Txs[2].account_id # account_id
    /\ \A r \in results["identify"] : r.value.v = TRUE

\* ---------------------------------------------------------------------- C8
BaseRequired ==
    { "id", "dedupe_id", "description", "created", "settled", "updated",
      "counterparty", "notes" }
NonNoteRequired ==
    { "amount", "currency", "local_amount", "local_currency", "merchant", "scheme" }

NoteBranch(tx) == lower(tx.notes) = "pin change" \/ "decline_reason" \in DOMAIN tx

\* the record lacks a field the claim calls required
LacksRequired(tx) ==
    \/ ~(BaseRequired \subseteq DOMAIN tx)
    \/ ~NoteBranch(tx) /\ ~(NonNoteRequired \subseteq DOMAIN tx)

\* the same, local_amount being required only where the currencies differ
LacksRead(tx) ==
    \/ ~(BaseRequired \subseteq DOMAIN tx)
    \/ /\ ~NoteBranch(tx)
       /\ \/ ~(NonNoteRequired \ {"local_amount"} \subseteq DOMAIN tx)
          \/ "local_amount" \notin DOMAIN tx /\ tx.local_currency # tx.currency

Failed(r) == r.raised \in Exceptions /\ r.value = PyNone

\* C8 as the spec states it: a record lacking id, dedupe_id, description, created,
\* settled, updated, counterparty or notes, or in a non-Note branch amount, currency,
\* local_amount, local_currency, merchant or scheme, makes extract fail, no entry
\* returned.
\* Violated: a record of a non-Note branch with local_currency = currency and no
\* local_amount is converted: the `and` of get_unit_price never reads local_amount.
C8_AllOrNothing ==
    \A r \in results["extract"] :
        (\E i \in DOMAIN Txs : LacksRequired(Txs[i])) => Failed(r)

\* C8 amended: the same with local_amount required only when local_currency differs
\* from currency: a record at any position lacking such a field makes extract raise,
\* and the caller gets no entry, not even those of the records before it.
C8_AllOrNothingRead ==
    \A r \in results["extract"] :
        (\E i \in DOMAIN Txs : LacksRead(Txs[i])) => Failed(r)

\* extract has failed on a file whose first record is well-formed and whose second
\* lacks a required field
C8_Witness ==
    /\ Len(Txs) = 2
    /\ ~LacksRequired(Txs[1]) /\ body_raises(Txs[1]) = "None"
    /\ LacksRead(Txs[2])
    /\ \E r \in results["extract"] : r.raised = "KeyError"

====
